---- MODULE Spec2Model ----
(***************************************************************************)
(* Model of the DNS forwarding server in src/app/main.go.                  *)
(*                                                                         *)
(* Byte buffers are sequences of integers 0..255; Go offsets are 0-based,  *)
(* so the byte at Go offset o of buf is buf[o + 1].  A bytes.Reader is the *)
(* pair (buf, pos).  Three specifications share the module:                *)
(*   NameSpec   readName applied to bounded buffers,                       *)
(*   CodecSpec  packDNSResponse / parseDNSResponse applied to messages,    *)
(*   Spec       the receive loop of main (LiveSpec adds its fairness).     *)
(***************************************************************************)
EXTENDS Integers, Sequences, FiniteSets, TLC

VARIABLES
    pc,            \* main is blocked in ReadFromUDP ("recv") or in the upstream Read
                   \* ("read"), or the process ended: log.Fatal ("exited"), panic or
                   \* stack overflow ("crashed")
    resolver,      \* TRUE iff the -resolver flag is not the empty string (line 123)
    dgram,         \* buf[:size] of the datagram being served (line 100)
    dnsHeader,     \* main's dnsHeader (line 109)
    dnsQuestions,  \* main's dnsQuestions (line 113)
    dnsAnswers,    \* main's dnsAnswers (line 114)
    qi,            \* index of the question the forwarding loop is at (line 140)
    exchanges,     \* log of the upstream exchanges of the datagram being served
    respBytes,     \* bytes written back to the client for this datagram, <<>> if none yet
    cpc, cm, cout, cdec,       \* CodecSpec: position, message, encoding, decoding
    npc, nbuf, nstart, nres    \* NameSpec: position, buffer, start offset, result

vars == <<pc, resolver, dgram, dnsHeader, dnsQuestions, dnsAnswers, qi, exchanges,
          respBytes, cpc, cm, cout, cdec, npc, nbuf, nstart, nres>>

serverVars == <<pc, resolver, dgram, dnsHeader, dnsQuestions, dnsAnswers, qi,
                exchanges, respBytes>>
codecVars == <<cpc, cm, cout, cdec>>
nameVars == <<npc, nbuf, nstart, nres>>

----------------------------------------------------------------------------
(* Bounds of the model *)

\* longest generic buffer handed to readName in NameSpec
MaxBufLen == 5
\* longest RDATA of a resource record in CodecSpec and in upstream replies
MaxRData == 5
\* most answer records of one message in CodecSpec
MaxAnswers == 2

----------------------------------------------------------------------------
(* Bytes and big-endian integers *)

\* the separator of strings.Join / strings.Split
Dot == 46

Min(a, b) == IF a < b THEN a ELSE b
Max(a, b) == IF a > b THEN a ELSE b

Zeros(n) == [i \in 1..n |-> 0]

\* binary.BigEndian.PutUint16 / PutUint32
PutUint16(v) == <<(v \div 256) % 256, v % 256>>
PutUint32(v) == <<(v \div 16777216) % 256, (v \div 65536) % 256,
                  (v \div 256) % 256, v % 256>>

\* big-endian value of the n bytes at Go offset pos
RECURSIVE BigEndian(_, _, _)
BigEndian(buf, pos, n) ==
    IF n = 0 THEN 0
    ELSE BigEndian(buf, pos, n - 1) * 256 + buf[pos + n]

\* binary.Read of an n-byte integer: io.ReadFull either fills all n bytes or
\* fails; on failure the variable keeps its zero value, the error is ignored
\* by every caller, and the reader has been drained.
ReadUint(buf, pos, n) ==
    IF pos + n <= Len(buf)
    THEN [val |-> BigEndian(buf, pos, n), pos |-> pos + n]
    ELSE [val |-> 0, pos |-> Max(pos, Len(buf))]

\* binary.Read into a []byte of length n: all n bytes or n zero bytes
ReadBytes(buf, pos, n) ==
    IF pos + n <= Len(buf)
    THEN [val |-> SubSeq(buf, pos + 1, pos + n), pos |-> pos + n]
    ELSE [val |-> Zeros(n), pos |-> Max(pos, Len(buf))]

RECURSIVE Concat(_)
Concat(ss) == IF ss = <<>> THEN <<>> ELSE Head(ss) \o Concat(Tail(ss))

----------------------------------------------------------------------------
(* Names *)

\* strings.Join(labels, ".")
RECURSIVE Join(_)
Join(labels) ==
    IF labels = <<>> THEN <<>>
    ELSE IF Len(labels) = 1 THEN labels[1]
    ELSE labels[1] \o <<Dot>> \o Join(Tail(labels))

\* strings.Split(domain, "."): always at least one (possibly empty) label
RECURSIVE SplitFrom(_, _, _, _)
SplitFrom(s, i, cur, acc) ==
    IF i > Len(s) THEN Append(acc, cur)
    ELSE IF s[i] = Dot THEN SplitFrom(s, i + 1, <<>>, Append(acc, cur))
    ELSE SplitFrom(s, i + 1, Append(cur, s[i]), acc)

Split(s) == SplitFrom(s, 1, <<>>, <<>>)

labelSequence(domain) ==
    LET labels == Split(domain)
    IN  Concat([i \in 1..Len(labels) |-> <<Len(labels[i]) % 256>> \o labels[i]])
        \o <<0>>

NameOk(name, pos) == [status |-> "ok", name |-> name, pos |-> pos]
NameErr(pos) == [status |-> "err", name |-> <<>>, pos |-> pos]
NameOverflow(pos) == [status |-> "overflow", name |-> <<>>, pos |-> pos]

\* readName is a function of (buf, offset) and every call starts with empty
\* labels: a pointer whose target is the start offset of a call still on the
\* stack (active) makes that call again, and again, without end; the
\* goroutine stack grows until the runtime ends the process with a fatal
\* stack overflow.  A recursion that never meets the start of an active call
\* visits each offset at most once and returns.
Diverges(active, offset) == offset \in active

\* the label bytes reader.Read(labelBytes) leaves in labelBytes: what is left of
\* the buffer, zero-padded to length
LabelBytes(buf, pos, length) ==
    LET avail == Min(length, Len(buf) - pos)
    IN  SubSeq(buf, pos + 1, pos + avail) \o Zeros(length - avail)

\* lines 245-251: after the recursive call returned label, seek back to curPos,
\* append the label and leave the loop
PointerReturnNoRestore(labels, sub, curPos) ==
    NameOk(Join(Append(labels, sub.name)), sub.pos)

PointerReturn(labels, sub, curPos) ==
    NameOk(Join(Append(labels, sub.name)), curPos)

\* readName with its loop state (labels) and the start offsets of the calls
\* on the stack (active)
RECURSIVE readNameLoop(_, _, _, _)
readNameLoop(buf, pos, labels, active) ==
    IF pos >= Len(buf) THEN NameErr(pos)
    ELSE
    LET length == buf[pos + 1]
    IN  IF length = 0 THEN NameOk(Join(labels), pos + 1)
        ELSE IF length \div 64 = 3
        THEN IF pos + 1 >= Len(buf) THEN NameErr(pos + 1)
             ELSE
             LET offset == (length % 64) * 256 + buf[pos + 2]
                 curPos == pos + 2
             IN  IF Diverges(active, offset) THEN NameOverflow(offset)
                 ELSE
                 LET sub == readNameLoop(buf, offset, <<>>, active \cup {offset})
                 IN  IF sub.status # "ok" THEN sub
                     ELSE PointerReturn(labels, sub, curPos)
        ELSE IF pos + 1 >= Len(buf) THEN NameErr(pos + 1)
        ELSE readNameLoop(buf, pos + 1 + Min(length, Len(buf) - (pos + 1)),
                          Append(labels, LabelBytes(buf, pos + 1, length)), active)

readName(buf, pos) == readNameLoop(buf, pos, <<>>, {pos})

----------------------------------------------------------------------------
(* NameSpec: readName on bounded buffers *)

\* 0, 1, 2 serve as length bytes and as pointer targets, 97 is 'a' (and a
\* target past the end), 192 is the pointer marker 0xC0
NameAlphabet == {0, 1, 2, 97, 192}

GenericBuffers == UNION {[1..k -> NameAlphabet] : k \in 0..MaxBufLen}

\* a 12-byte header, "example.com" at offset 12, and at offset 25 a name that
\* is only a pointer to offset 12
ExampleName == <<7, 101, 120, 97, 109, 112, 108, 101, 3, 99, 111, 109, 0>>
ExampleString == <<101, 120, 97, 109, 112, 108, 101, Dot, 99, 111, 109>>
ExampleBuf == Zeros(12) \o ExampleName \o <<192, 12>>

NameInit ==
    /\ \/ /\ nbuf \in GenericBuffers
          /\ nstart \in 0..Len(nbuf)
       \/ /\ nbuf = ExampleBuf
          /\ nstart \in {12, 25}
    /\ npc = "call"
    /\ nres = NameErr(0)

\* one call of readName; a diverging recursion ends the process
DecodeName ==
    /\ npc = "call"
    /\ nres' = readName(nbuf, nstart)
    /\ npc' = IF nres'.status = "overflow" THEN "crashed" ELSE "returned"
    /\ UNCHANGED <<serverVars, codecVars>>
    /\ UNCHANGED <<nbuf, nstart>>

(* Wire-format reading of a name, used to state the claims about readName *)

\* offset of the first complete compression pointer of the name that starts
\* at offset p, or -1 when the labels end with a zero byte or run off the buffer
RECURSIVE PointerOffset(_, _)
PointerOffset(buf, p) ==
    IF p >= Len(buf) THEN -1
    ELSE IF buf[p + 1] = 0 THEN -1
    ELSE IF buf[p + 1] >= 192 THEN (IF p + 1 < Len(buf) THEN p ELSE -1)
    ELSE PointerOffset(buf, p + 1 + buf[p + 1])

PointerTarget(buf, q) == (buf[q + 1] - 192) * 256 + buf[q + 2]

\* the labels between offset p and the pointer at offset q
RECURSIVE LabelsBefore(_, _, _)
LabelsBefore(buf, p, q) ==
    IF p >= q THEN <<>>
    ELSE <<SubSeq(buf, p + 2, p + 1 + buf[p + 1])>>
         \o LabelsBefore(buf, p + 1 + buf[p + 1], q)

----------------------------------------------------------------------------
(* Messages *)

Header(id, flags, qd, an, ns, ar) ==
    [ID |-> id, Flags |-> flags, QDCount |-> qd, ANCount |-> an,
     NSCount |-> ns, ARCount |-> ar]

ZeroHeader == Header(0, 0, 0, 0, 0, 0)

\* binary.Read(reader, binary.BigEndian, &dnsHeader): twelve bytes or nothing
ReadHeader(buf) ==
    IF Len(buf) >= 12
    THEN [val |-> Header(BigEndian(buf, 0, 2), BigEndian(buf, 2, 2),
                         BigEndian(buf, 4, 2), BigEndian(buf, 6, 2),
                         BigEndian(buf, 8, 2), BigEndian(buf, 10, 2)),
          pos |-> 12]
    ELSE [val |-> ZeroHeader, pos |-> Len(buf)]

ParseErr(status, pos) == [status |-> status, val |-> <<>>, pos |-> pos]

parseDNSQuestion(buf, pos) ==
    LET name == readName(buf, pos)
    IN  IF name.status # "ok" THEN ParseErr(name.status, name.pos)
        ELSE
        LET qType == ReadUint(buf, name.pos, 2)
            qClass == ReadUint(buf, qType.pos, 2)
        IN  [status |-> "ok",
             val |-> [Name |-> labelSequence(name.name), Type |-> qType.val,
                      Class |-> qClass.val],
             pos |-> qClass.pos]

parseDNSAnswer(buf, pos) ==
    LET name == readName(buf, pos)
    IN  IF name.status # "ok" THEN ParseErr(name.status, name.pos)
        ELSE
        LET aType == ReadUint(buf, name.pos, 2)
            aClass == ReadUint(buf, aType.pos, 2)
            ttl == ReadUint(buf, aClass.pos, 4)
            rdLength == ReadUint(buf, ttl.pos, 2)
            rData == ReadBytes(buf, rdLength.pos, rdLength.val)
        IN  [status |-> "ok",
             val |-> [Name |-> labelSequence(name.name), Type |-> aType.val,
                      Class |-> aClass.val, TTL |-> ttl.val,
                      RDLength |-> rdLength.val, RData |-> rData.val],
             pos |-> rData.pos]

\* lines 187-193: QDCount calls of parseDNSQuestion in a row from pos, up to
\* the first that does not return a question
RECURSIVE ParseQuestionsN(_, _, _, _)
ParseQuestionsN(buf, pos, n, acc) ==
    IF n = 0 THEN [status |-> "ok", val |-> acc, pos |-> pos]
    ELSE LET r == parseDNSQuestion(buf, pos)
         IN  IF r.status # "ok" THEN ParseErr(r.status, r.pos)
             ELSE ParseQuestionsN(buf, r.pos, n - 1, Append(acc, r.val))

\* lines 195-201: ANCount calls of parseDNSAnswer in a row
RECURSIVE ParseAnswersN(_, _, _, _)
ParseAnswersN(buf, pos, n, acc) ==
    IF n = 0 THEN [status |-> "ok", val |-> acc, pos |-> pos]
    ELSE LET r == parseDNSAnswer(buf, pos)
         IN  IF r.status # "ok" THEN ParseErr(r.status, r.pos)
             ELSE ParseAnswersN(buf, r.pos, n - 1, Append(acc, r.val))

\* status "ok" with the message, "nil" for the nil return, "overflow" when
\* readName never returns
parseDNSResponse(buf) ==
    LET header == ReadHeader(buf)
        questions == ParseQuestionsN(buf, header.pos, header.val.QDCount, <<>>)
        answers == ParseAnswersN(buf, questions.pos, header.val.ANCount, <<>>)
    IN  IF questions.status = "overflow" THEN [status |-> "overflow"]
        ELSE IF questions.status # "ok" THEN [status |-> "nil"]
        ELSE IF answers.status = "overflow" THEN [status |-> "overflow"]
        ELSE IF answers.status # "ok" THEN [status |-> "nil"]
        ELSE [status |-> "ok",
              val |-> [Header |-> header.val, Question |-> questions.val,
                       Answers |-> answers.val]]

\* line 345: copy(buffer[offset+10:offset+14], answer.RData) copies at most
\* the four bytes the destination slice holds
RDataWritten(answer) == SubSeq(answer.RData, 1, Min(4, Len(answer.RData)))

HeaderBytes(h) ==
    PutUint16(h.ID) \o PutUint16(h.Flags) \o PutUint16(h.QDCount)
    \o PutUint16(h.ANCount) \o PutUint16(h.NSCount) \o PutUint16(h.ARCount)

QuestionBytes(question) ==
    question.Name \o PutUint16(question.Type) \o PutUint16(question.Class)

\* lines 338-346: the record takes len(Name) + 14 bytes whatever len(RData) is
AnswerBytes(answer) ==
    LET rdata == RDataWritten(answer)
    IN  answer.Name \o PutUint16(answer.Type) \o PutUint16(answer.Class)
        \o PutUint32(answer.TTL) \o PutUint16(answer.RDLength)
        \o rdata \o Zeros(4 - Len(rdata))

RECURSIVE Sum(_)
Sum(ns) == IF ns = <<>> THEN 0 ELSE Head(ns) + Sum(Tail(ns))

\* lines 305-313: the size of the buffer; the question loop runs to
\* Header.QDCount, the answer loop over the answers
PackSize(response) ==
    12
    + Sum([i \in 1..response.Header.QDCount |-> Len(response.Question[i].Name) + 4])
    + Sum([i \in 1..Len(response.Answers) |->
              2 + Len(response.Answers[i].Name) + 10 + Len(response.Answers[i].RData)])

\* Status "panic": response.Question[i] is indexed past the list (line 307), or
\* a slice expression of lines 329-345 ends past the buffer.  The slices end at
\* increasing offsets, so one of them ends past the buffer exactly when the
\* bytes to write are more than size.  Bytes not written stay zero.
packDNSResponse(response) ==
    IF response.Header.QDCount > Len(response.Question)
    THEN [status |-> "panic", bytes |-> <<>>]
    ELSE
    LET size == PackSize(response)
        written ==
            HeaderBytes(response.Header)
            \o Concat([i \in 1..Len(response.Question) |->
                          QuestionBytes(response.Question[i])])
            \o Concat([i \in 1..Len(response.Answers) |->
                          AnswerBytes(response.Answers[i])])
    IN  IF Len(written) > size THEN [status |-> "panic", bytes |-> <<>>]
        ELSE [status |-> "ok", bytes |-> written \o Zeros(size - Len(written))]

----------------------------------------------------------------------------
(* CodecSpec: packDNSResponse, then parseDNSResponse of its output *)

\* names as the program holds them: labelSequence of "a" and of "a.b"
CodecNames == {labelSequence(<<97>>), labelSequence(<<97, Dot, 98>>)}

CodecQuestions == [Name : CodecNames, Type : {1}, Class : {1}]

\* RDATA of every length up to MaxRData, all zero bytes or all bytes 9
CodecRData == {[i \in 1..k |-> b] : k \in 0..MaxRData, b \in {0, 9}}

CodecAnswers ==
    {[Name |-> labelSequence(<<97>>), Type |-> 1, Class |-> 1, TTL |-> 60,
      RDLength |-> Len(rd), RData |-> rd] : rd \in CodecRData}

\* messages that satisfy the data model: counts equal to the list lengths,
\* RDLength equal to the RDATA length, names without pointers
CodecMessages ==
    {[Header |-> Header(4660, f, Len(qs), Len(as), 0, 0), Question |-> qs,
      Answers |-> as] :
        f \in {256, 33152},
        qs \in UNION {[1..k -> CodecQuestions] : k \in 0..1},
        as \in UNION {[1..k -> CodecAnswers] : k \in 0..MaxAnswers}}

NoEncoding == [status |-> "none", bytes |-> <<>>]
NoDecoding == [status |-> "none"]

CodecInit ==
    /\ cm \in CodecMessages
    /\ cpc = "start"
    /\ cout = NoEncoding
    /\ cdec = NoDecoding

Encode ==
    /\ cpc = "start"
    /\ cout' = packDNSResponse(cm)
    /\ cpc' = IF cout'.status = "panic" THEN "crashed" ELSE "encoded"
    /\ UNCHANGED <<cm, cdec, serverVars, nameVars>>

Decode ==
    /\ cpc = "encoded"
    /\ cdec' = parseDNSResponse(cout.bytes)
    /\ cpc' = "decoded"
    /\ UNCHANGED <<cm, cout, serverVars, nameVars>>

----------------------------------------------------------------------------
(* main: the receive loop *)

\* flags |= mask for a mask of one bit
SetBit(flags, bit) == IF (flags \div bit) % 2 = 1 THEN flags ELSE flags + bit

\* lines 167-171
ResponseFlags(flags) ==
    LET qr == SetBit(flags, 32768)
    IN  IF (qr \div 2048) % 16 # 0 THEN SetBit(qr, 4) ELSE qr

\* lines 115-121: questions are parsed until the reader is empty
RECURSIVE ParseQuestions(_, _, _)
ParseQuestions(buf, pos, acc) ==
    IF pos >= Len(buf) THEN [status |-> "ok", val |-> acc, pos |-> pos]
    ELSE LET r == parseDNSQuestion(buf, pos)
         IN  IF r.status # "ok" THEN ParseErr(r.status, r.pos)
             ELSE ParseQuestions(buf, r.pos, Append(acc, r.val))

\* the process is gone (log.Fatal or a runtime panic), or main is left where
\* p says with the given locals and nothing sent to the client
Stop(p, header, questions, answers, log, i) ==
    /\ pc' = p
    /\ dnsHeader' = header
    /\ dnsQuestions' = questions
    /\ dnsAnswers' = answers
    /\ exchanges' = log
    /\ qi' = i
    /\ respBytes' = <<>>

\* lines 160-177: build the response, encode it, hand it to WriteToUDP and go
\* back to ReadFromUDP
Respond(header, questions, answers, log, i) ==
    LET response ==
            [Header |-> [header EXCEPT !.QDCount = Len(questions) % 65536,
                                       !.ANCount = Len(answers) % 65536,
                                       !.Flags = ResponseFlags(header.Flags)],
             Question |-> questions,
             Answers |-> answers]
        out == packDNSResponse(response)
    IN  IF out.status = "panic"
        THEN Stop("crashed", header, questions, answers, log, i)
        ELSE /\ pc' = "recv"
             /\ dnsHeader' = header
             /\ dnsQuestions' = questions
             /\ dnsAnswers' = answers
             /\ exchanges' = log
             /\ qi' = i
             /\ respBytes' = out.bytes

\* lines 140-149 for question i: build and encode the single-question query,
\* Write it (wok: the Write succeeded) and block in Read; past the last
\* question the loop ends and the response is sent
Forward(header, questions, answers, log, i, wok) ==
    IF i > Len(questions) THEN Respond(header, questions, answers, log, i)
    ELSE
    LET dnsQ == [Header |-> header, Question |-> <<questions[i]>>, Answers |-> <<>>]
        data == packDNSResponse(dnsQ)
    IN  IF data.status = "panic"
        THEN Stop("crashed", header, questions, answers, log, i)
        ELSE Stop("read", header, questions, answers,
                  Append(log, [msg |-> dnsQ, query |-> data.bytes, delivered |-> wok,
                               outcome |-> "pending", reply |-> <<>>,
                               answers |-> <<>>]), i)

\* lines 100-138: one datagram arrives; a question that fails to decode ends
\* the process through log.Fatal
Receive(d, wok) ==
    /\ pc = "recv"
    /\ dgram' = d
    /\ LET header == ReadHeader(d)
           qs == ParseQuestions(d, header.pos, <<>>)
       IN  IF qs.status = "err"
           THEN Stop("exited", header.val, <<>>, <<>>, <<>>, 0)
           ELSE IF qs.status = "overflow"
           THEN Stop("crashed", header.val, <<>>, <<>>, <<>>, 0)
           ELSE IF resolver
           THEN Forward([header.val EXCEPT !.QDCount = 1], qs.val, <<>>, <<>>, 1, wok)
           ELSE Respond(header.val, qs.val, <<>>, <<>>, 0)
    /\ UNCHANGED <<resolver, codecVars, nameVars>>

Closed(log, i, outcome, reply, answers) ==
    [log EXCEPT ![i].outcome = outcome, ![i].reply = reply, ![i].answers = answers]

\* lines 149-155, then the next turn of the loop: Read returns the datagram r
\* of the upstream, whether or not the Write before it succeeded; a reply
\* parseDNSResponse returns nil for is dereferenced at line 155
UpstreamReply(r, wok) ==
    /\ pc = "read"
    /\ LET response == parseDNSResponse(r)
       IN  IF response.status # "ok"
           THEN Stop("crashed", dnsHeader, dnsQuestions, dnsAnswers,
                     Closed(exchanges, qi, "undecodable", r, <<>>), qi)
           ELSE Forward(dnsHeader, dnsQuestions, dnsAnswers \o response.val.Answers,
                        Closed(exchanges, qi, "answered", r, response.val.Answers),
                        qi + 1, wok)
    /\ UNCHANGED <<dgram, resolver, codecVars, nameVars>>

\* lines 150-153: Read fails and the loop over the questions is left
UpstreamError ==
    /\ pc = "read"
    /\ Respond(dnsHeader, dnsQuestions, dnsAnswers,
               Closed(exchanges, qi, "recv_error", <<>>, <<>>), qi)
    /\ UNCHANGED <<dgram, resolver, codecVars, nameVars>>

----------------------------------------------------------------------------
(* Datagrams of the clients and of the upstream *)

\* wire names: "a", "b", the root, a pointer to offset 12, a label cut short,
\* and a label followed by a pointer to offset 12
WireA == <<1, 97, 0>>
WireB == <<1, 98, 0>>
WireRoot == <<0>>
WirePtr12 == <<192, 12>>
WireCut == <<2, 97>>
WireLabelPtr12 == <<1, 97, 192, 12>>

WireNames == {WireA, WireB, WireRoot, WirePtr12, WireCut, WireLabelPtr12}

\* a question of type A, class IN
WireQuestion(name) == name \o <<0, 1, 0, 1>>

\* a record of type A, class IN, TTL 60, whose name is a pointer to offset 12
WireAnswer(rdata) ==
    WirePtr12 \o <<0, 1, 0, 1>> \o <<0, 0, 0, 60>> \o PutUint16(Len(rdata)) \o rdata

RequestFlags == {0, 1, 256, 2048, 2053, 30720, 33024, 65535}

Bodies ==
    {<<>>}
    \cup {WireQuestion(n) : n \in WireNames}
    \cup {WireQuestion(n1) \o WireQuestion(n2) : n1 \in {WireA, WireB}, n2 \in WireNames}

Datagrams ==
    {HeaderBytes(Header(4660, f, 1, an, 0, 0)) \o WireQuestion(WireA) :
        f \in RequestFlags, an \in {0, 1}}
    \cup {HeaderBytes(Header(4660, 256, 1, 0, 0, 0)) \o b : b \in Bodies}
    \cup {<<18, 52>>}

ReplyRData == {[i \in 1..k |-> 9] : k \in {0, 1, 4, MaxRData}} \cup {<<8, 8, 8, 8>>}

UpstreamReplies ==
    \* no answer, one answer, two answers
    {HeaderBytes(Header(4660, 33152, 1, 0, 0, 0)) \o WireQuestion(WireA)}
    \cup {HeaderBytes(Header(4660, 33152, 1, 1, 0, 0)) \o WireQuestion(WireA)
             \o WireAnswer(rd) : rd \in ReplyRData}
    \cup {HeaderBytes(Header(4660, 33152, 1, 2, 0, 0)) \o WireQuestion(WireA)
             \o WireAnswer(<<8, 8, 8, 8>>) \o WireAnswer(<<9, 9, 9, 9>>)}
    \* ANCOUNT 1 and no record; a question whose name points to itself
    \cup {HeaderBytes(Header(4660, 33152, 1, 1, 0, 0)) \o WireQuestion(WireA),
          HeaderBytes(Header(4660, 33152, 1, 0, 0, 0)) \o WireQuestion(WirePtr12)}

----------------------------------------------------------------------------
(* Specifications *)

ServerIdle ==
    /\ pc = "recv"
    /\ resolver = FALSE
    /\ dgram = <<>>
    /\ dnsHeader = ZeroHeader
    /\ dnsQuestions = <<>>
    /\ dnsAnswers = <<>>
    /\ qi = 0
    /\ exchanges = <<>>
    /\ respBytes = <<>>

CodecIdle ==
    /\ cpc = "start"
    /\ cm = [Header |-> ZeroHeader, Question |-> <<>>, Answers |-> <<>>]
    /\ cout = NoEncoding
    /\ cdec = NoDecoding

NameIdle ==
    /\ npc = "call"
    /\ nbuf = <<>>
    /\ nstart = 0
    /\ nres = NameErr(0)

\* main before the first ReadFromUDP; the -resolver flag is empty or not
Init ==
    /\ pc = "recv"
    /\ resolver \in BOOLEAN
    /\ dgram = <<>>
    /\ dnsHeader = ZeroHeader
    /\ dnsQuestions = <<>>
    /\ dnsAnswers = <<>>
    /\ qi = 0
    /\ exchanges = <<>>
    /\ respBytes = <<>>
    /\ CodecIdle
    /\ NameIdle

Next ==
    \/ \E d \in Datagrams, wok \in BOOLEAN : Receive(d, wok)
    \/ \E r \in UpstreamReplies, wok \in BOOLEAN : UpstreamReply(r, wok)
    \/ UpstreamError

Spec == Init /\ [][Next]_vars

\* Clients keep sending: a datagram is always there for ReadFromUDP to return
\* when main is at it.  Nothing is assumed of the upstream.
LiveSpec == Spec /\ WF_vars(\E d \in Datagrams, wok \in BOOLEAN : Receive(d, wok))

CodecSpecInit == CodecInit /\ ServerIdle /\ NameIdle
CodecNext == Encode \/ Decode
CodecSpec == CodecSpecInit /\ [][CodecNext]_vars

NameSpecInit == NameInit /\ ServerIdle /\ CodecIdle
NameNext == DecodeName
NameSpec == NameSpecInit /\ [][NameNext]_vars

----------------------------------------------------------------------------
(* Claims *)

QuestionsMalformed(d) == ParseQuestions(d, ReadHeader(d).pos, <<>>).status = "err"

\* C1: a datagram whose question section fails to decode is dropped and main
\* is back at ReadFromUDP for the following datagrams; the process does not
\* end because of it.
C1_MalformedDatagramDropped == QuestionsMalformed(dgram) => pc = "recv"

\* C2: readName returns on every buffer, and when the name it reads meets a
\* compression pointer whose target offset is not below the pointer's own
\* offset, it returns an error instead of following the pointer.
C2_PointerLoopRejected ==
    /\ npc # "crashed"
    /\ npc = "returned" =>
          LET q == PointerOffset(nbuf, nstart)
          IN  (q # -1 /\ PointerTarget(nbuf, q) >= q) => nres.status = "err"

ExchangeFailed(e) == e.outcome \in {"recv_error", "undecodable"} \/ ~e.delivered

\* C3: when the upstream exchange of a question fails, the process goes on,
\* that question adds no answer, every question of the request has still been
\* forwarded by the time the response is sent, and the response is sent.
C3_UpstreamFailureDegradesOneQuestion ==
    (\E i \in DOMAIN exchanges : exchanges[i].outcome # "pending"
                                  /\ ExchangeFailed(exchanges[i])) =>
        /\ pc # "crashed"
        /\ dnsAnswers = Concat([i \in DOMAIN exchanges |-> exchanges[i].answers])
        /\ pc = "recv" => /\ Len(exchanges) = Len(dnsQuestions)
                          /\ respBytes # <<>>

FlagQR(f) == f \div 32768
FlagOpcode(f) == (f \div 2048) % 16
FlagRcode(f) == f % 16
\* Opcode, AA, TC, RD, RA and Z: bits 4 to 14
FlagMiddle(f) == (f \div 16) % 2048

\* C4: the flag word of the response has QR = 1, RCODE = 0 when the request's
\* Opcode is 0 and RCODE = 4 otherwise, and every other bit as in the request.
C4_ResponseFlags ==
    (respBytes # <<>> /\ Len(dgram) >= 12) =>
        LET f == BigEndian(dgram, 2, 2)
            g == BigEndian(respBytes, 2, 2)
        IN  /\ FlagQR(g) = 1
            /\ FlagRcode(g) = IF FlagOpcode(f) = 0 THEN 0 ELSE 4
            /\ FlagMiddle(g) = FlagMiddle(f)

\* C5: bytes 4..7 of every encoding, the queries sent to the upstream and the
\* response sent to the client, hold the number of questions and the number
\* of answer records encoded in it.
C5_CountsMatchSections ==
    /\ \A i \in DOMAIN exchanges :
          /\ BigEndian(exchanges[i].query, 4, 2) = Len(exchanges[i].msg.Question)
          /\ BigEndian(exchanges[i].query, 6, 2) = Len(exchanges[i].msg.Answers)
    /\ respBytes # <<>> =>
          /\ BigEndian(respBytes, 4, 2) = Len(dnsQuestions)
          /\ BigEndian(respBytes, 6, 2) = Len(dnsAnswers)

\* the message satisfies the data model: counts equal to the list lengths and
\* RDLENGTH equal to the RDATA length
WellFormed(m) ==
    /\ m.Header.QDCount = Len(m.Question)
    /\ m.Header.ANCount = Len(m.Answers)
    /\ \A i \in DOMAIN m.Answers : m.Answers[i].RDLength = Len(m.Answers[i].RData)

\* C6: decoding the encoding of a well-formed message gives the message back,
\* field for field, whatever the RDATA lengths.
C6_RoundTrip ==
    (cpc = "decoded" /\ WellFormed(cm)) => (cdec.status = "ok" /\ cdec.val = cm)

\* C7: encoding a well-formed message does not fail, and no record's RDATA is
\* cut short in the output.
C7_EncodeNeverFails ==
    (cpc # "start" /\ WellFormed(cm)) =>
        /\ cout.status = "ok"
        /\ \A i \in DOMAIN cm.Answers : RDataWritten(cm.Answers[i]) = cm.Answers[i].RData

\* the query for question i: that question alone, QDCOUNT 1, the ID and the
\* flags of the request
IsQueryFor(e, i) ==
    /\ e.msg.Question = <<dnsQuestions[i]>>
    /\ e.msg.Answers = <<>>
    /\ BigEndian(e.query, 0, 2) = BigEndian(dgram, 0, 2)
    /\ BigEndian(e.query, 2, 2) = BigEndian(dgram, 2, 2)
    /\ BigEndian(e.query, 4, 2) = 1

ExchangesInOrder ==
    /\ Len(exchanges) <= Len(dnsQuestions)
    /\ \A i \in DOMAIN exchanges :
          /\ IsQueryFor(exchanges[i], i)
          /\ i < Len(exchanges) => exchanges[i].outcome = "answered"
    /\ dnsAnswers = Concat([i \in DOMAIN exchanges |-> exchanges[i].answers])

\* C8: with an upstream configured, by the time the response to a request of
\* n questions is sent, n exchanges were made, one per question and in the
\* order of the questions, each a single-question query followed by its reply
\* before the next query, and the answers of the response are the answers of
\* the replies concatenated in that order.
C8_OneExchangePerQuestionInOrder ==
    (resolver /\ Len(dgram) >= 12) =>
        /\ ExchangesInOrder
        /\ pc = "recv" =>
              /\ Len(exchanges) = Len(dnsQuestions)
              /\ BigEndian(respBytes, 6, 2) = Len(dnsAnswers)

\* What of C8 the code does keep, failures or not: the queries are sent in
\* the order of the questions, one at a time, and the answers are the answers
\* of the replies in that order.
C8_OrderKept == (resolver /\ Len(dgram) >= 12) => ExchangesInOrder

\* C9: every wait for an upstream reply ends, also when the upstream never
\* replies, so that main gets back to serving datagrams.
C9_UpstreamWaitBounded == (pc = "read") ~> (pc # "read")

\* C10: when readName is called on a name that ends in a pointer at offset q to
\* an earlier offset t where a name decodes, it returns the labels before the
\* pointer followed by the name decoded at t, with the cursor at q + 2 (so no
\* label is read after the pointer); the pointer to offset 12 of the example
\* decodes to "example.com" with the cursor 2 bytes past the pointer.
C10_PointerDecode ==
    /\ npc # "call" =>
          LET q == PointerOffset(nbuf, nstart)
              t == PointerTarget(nbuf, q)
          IN  (q # -1 /\ t < q /\ readName(nbuf, t).status = "ok") =>
                nres = NameOk(Join(Append(LabelsBefore(nbuf, nstart, q),
                                          readName(nbuf, t).name)),
                              q + 2)
    /\ (npc # "call" /\ nbuf = ExampleBuf /\ nstart = 25) =>
          nres = NameOk(ExampleString, 27)

\* C10 witness: a name of one label and a pointer to an earlier offset has
\* been decoded
C10_Witness ==
    /\ npc = "returned"
    /\ nres.status = "ok"
    /\ PointerOffset(nbuf, nstart) > nstart
    /\ PointerTarget(nbuf, PointerOffset(nbuf, nstart)) < nstart

====
